---- MODULE Spec2Model ----
(***************************************************************************)
(* The receive side of rust-websocket (src/receiver.rs): the Receiver's    *)
(* message assembly over its pending-continuation buffer, driven by a      *)
(* frame decoder that survives partial reads.                              *)
(*                                                                         *)
(* The byte source is modelled as the bytes the peer has written, a part   *)
(* of them readable now (avail) and a part still in transit (wire).  A     *)
(* read that runs out of readable bytes fails: would-block or a transport  *)
(* error while the connection is open, end-of-stream once the peer has     *)
(* closed and everything in transit has arrived.                           *)
(***************************************************************************)
EXTENDS Integers, Sequences, FiniteSets, TLC

(* ------------------------------ bounds -------------------------------- *)
\* frames the peer writes over the life of the connection
MaxFrames == 3
\* frames written by the peer and not yet decoded
MaxInFlight == 2
\* payload bytes of each frame of a message stream
MsgPayload == 1
\* frames the peer writes in the decoder runs
MaxRawFrames == 2
\* payload bytes of one frame in the decoder runs
MaxPayload == 2
\* bytes of a frame's masking key in the modelled header layout
MaskKeyLen == 1

(* ----------------------------- opcodes -------------------------------- *)
Continuation == 0
ControlLo == 8
ControlHi == 15
\* what the peer sends in a message stream, as <<finished, opcode>>: both
\* continuations, and for the opcodes that start a message and for the
\* control opcodes one unfinished and one finished frame, taken at the
\* ends of the ranges: text (1), reserved data (7), close (8), reserved
\* control (15)
FrameKinds ==
    { <<FALSE, 0>>, <<TRUE, 0>>, <<FALSE, 1>>, <<TRUE, 7>>,
      <<TRUE, 8>>, <<FALSE, 15>> }

(* ------------------------------ results ------------------------------- *)
Ok(v) == [ok |-> TRUE, val |-> v]
Err(e) == [ok |-> FALSE, err |-> e]
ProtocolError(msg) == [kind |-> "ProtocolError", msg |-> msg]
\* the error of a read that could not supply the bytes asked for
ReadFailure(end) == [kind |-> end, msg |-> ""]

(* --------------------------- byte helpers ----------------------------- *)
Min(a, b) == IF a < b THEN a ELSE b
Take(s, n) == SubSeq(s, 1, Min(n, Len(s)))
Drop(s, n) == SubSeq(s, Min(n, Len(s)) + 1, Len(s))

RECURSIVE BitXor(_, _)
BitXor(a, b) ==
    IF a = 0 THEN b
    ELSE IF b = 0 THEN a
    ELSE (((a % 2) + (b % 2)) % 2) + (2 * BitXor(a \div 2, b \div 2))

\* XOR of the payload with the repeated masking key (its own inverse)
MaskData(data, key) ==
    IF key = <<>> THEN data
    ELSE [i \in 1..Len(data) |-> BitXor(data[i], key[((i - 1) % Len(key)) + 1])]

(* ------------------- the wire form of a frame ------------------------- *)
\* byte 1: FIN bit and opcode; byte 2: MASK bit and payload length; then
\* the masking key when the MASK bit is set; then the (masked) payload.
Encode(f, key) ==
    << (IF f.finished THEN 128 ELSE 0) + f.opcode,
       (IF key = <<>> THEN 0 ELSE 128) + Len(f.data) >>
    \o key \o MaskData(f.data, key)

RECURSIVE EncodeAll(_, _)
EncodeAll(q, key) ==
    IF q = <<>> THEN <<>> ELSE Encode(Head(q), key) \o EncodeAll(Tail(q), key)

HeaderLen(b2) == 2 + (IF b2 >= 128 THEN MaskKeyLen ELSE 0)

ParseHeader(h) ==
    [finished |-> h[1] >= 128,
     opcode   |-> h[1] % 16,
     masked   |-> h[2] >= 128,
     len      |-> h[2] % 128,
     key      |-> SubSeq(h, 3, Len(h))]

(* ----------------------------- PacketState ---------------------------- *)
\* Option<DataFrameHeader> is a sequence of at most one header
PacketStateDefault == [header |-> <<>>, packet |-> <<>>]

\* as reset, but the payload bytes are kept
reset_header_only(ps) == [ps EXCEPT !.header = <<>>]

reset(ps) == [ps EXCEPT !.header = <<>>, !.packet = <<>>]

\* ReaderState::new(): no header decode in progress
ReaderStateNew == <<>>

(* --------------------------- frame decoder ---------------------------- *)
\* rd is the reader: the bytes readable now, what a read returns when they
\* run out, and the number of frames it has yielded so far.  reader_state
\* keeps the header bytes read so far.
read_header(bytes, rs) ==
    LET have == rs \o bytes
        need == IF Len(have) < 2 THEN 2 ELSE HeaderLen(have[2])
    IN  IF Len(have) < need
        THEN [done |-> FALSE, rest |-> <<>>, rs |-> have]
        ELSE [done   |-> TRUE,
              header |-> ParseHeader(SubSeq(have, 1, need)),
              rest   |-> Drop(bytes, need - Len(rs)),
              rs     |-> ReaderStateNew]

read_payload(rd, ps) ==
    LET hdr     == ps.header[1]
        missing == hdr.len - Len(ps.packet)
        got     == Min(missing, Len(rd.bytes))
        packet  == ps.packet \o Take(rd.bytes, got)
    IN  IF got < missing
        THEN [res |-> Err(ReadFailure(rd.end)),
              rd  |-> [rd EXCEPT !.bytes = Drop(rd.bytes, got)],
              ps  |-> [ps EXCEPT !.packet = packet],
              rs  |-> ReaderStateNew]
        ELSE [res |-> Ok([finished |-> hdr.finished,
                          opcode   |-> hdr.opcode,
                          data     |-> MaskData(packet, hdr.key),
                          seq      |-> rd.count + 1]),
              rd  |-> [rd EXCEPT !.bytes = Drop(rd.bytes, got),
                                 !.count = rd.count + 1],
              ps  |-> reset(ps),
              rs  |-> ReaderStateNew]

read_dataframe(rd, mask, uuid, ps, rs) ==
    IF ps.header = <<>>
    THEN LET h == read_header(rd.bytes, rs)
         IN  IF ~h.done
             THEN [res |-> Err(ReadFailure(rd.end)),
                   rd  |-> [rd EXCEPT !.bytes = h.rest],
                   ps  |-> ps,
                   rs  |-> h.rs]
             ELSE IF h.header.masked # mask
             THEN [res |-> Err(ProtocolError("masking mismatch")),
                   rd  |-> [rd EXCEPT !.bytes = h.rest],
                   ps  |-> ps,
                   rs  |-> h.rs]
             ELSE read_payload([rd EXCEPT !.bytes = h.rest],
                               [ps EXCEPT !.header = <<h.header>>])
    ELSE read_payload(rd, ps)

(* ------------------------------ Receiver ------------------------------ *)
ReceiverNew(mask, uuid) ==
    [buffer       |-> <<>>,
     mask         |-> mask,
     packet_state |-> PacketStateDefault,
     reader_state |-> ReaderStateNew,
     uuid         |-> uuid]

\* as recv_dataframe, but a decoded frame is also stored in the buffer
recv_dataframe_buffered(self, rd, uuid) ==
    LET d == read_dataframe(rd, self.mask, uuid,
                            self.packet_state, self.reader_state)
    IN  [res  |-> d.res,
         rd   |-> d.rd,
         self |-> [self EXCEPT !.packet_state = d.ps, !.reader_state = d.rs,
                               !.buffer = IF d.res.ok
                                          THEN Append(@, d.res.val)
                                          ELSE @]]

\* as recv_dataframe, but a failed decode leaves the decoder state empty
recv_dataframe_dropping(self, rd, uuid) ==
    LET d == read_dataframe(rd, self.mask, uuid,
                            self.packet_state, self.reader_state)
    IN  [res  |-> d.res,
         rd   |-> d.rd,
         self |-> IF d.res.ok
                  THEN [self EXCEPT !.packet_state = d.ps,
                                    !.reader_state = d.rs]
                  ELSE [self EXCEPT !.packet_state = PacketStateDefault,
                                    !.reader_state = ReaderStateNew]]

\* as recv_dataframe, but the connection identifier takes part in decoding
recv_dataframe_keyed(self, rd, uuid) ==
    LET d == read_dataframe(rd, self.mask # (uuid % 2 = 0), uuid,
                            self.packet_state, self.reader_state)
    IN  [res  |-> d.res,
         rd   |-> d.rd,
         self |-> [self EXCEPT !.packet_state = d.ps, !.reader_state = d.rs]]

\* as recv_dataframe, but with a decoder state of its own for each call
recv_dataframe_fresh(self, rd, uuid) ==
    LET d == read_dataframe(rd, self.mask, uuid,
                            PacketStateDefault, ReaderStateNew)
    IN  [res |-> d.res, rd |-> d.rd, self |-> self]

recv_dataframe(self, rd, uuid) ==
    LET d == read_dataframe(rd, self.mask, uuid,
                            self.packet_state, self.reader_state)
    IN  [res  |-> d.res,
         rd   |-> d.rd,
         self |-> [self EXCEPT !.packet_state = d.ps, !.reader_state = d.rs]]

IsControl(opcode) == opcode \in ControlLo..ControlHi

\* as push, but the frame is stored twice
push_twice(self, frame) == [self EXCEPT !.buffer = Append(Append(@, frame), frame)]

\* as push, but at the front
push_front(self, frame) == [self EXCEPT !.buffer = <<frame>> \o @]

\* self.buffer.push(frame)
push(self, frame) == [self EXCEPT !.buffer = Append(@, frame)]

\* as propagate, but the frames accumulated so far are lost
propagate_reset(n) == [n EXCEPT !.self.buffer = <<>>]

\* the ? after recv_dataframe: n is the failed decode, returned as it is
propagate(n) == n

\* as take_buffer, but the frames come out last first
take_buffer_reversed(self, rd) ==
    [res  |-> Ok([i \in 1..Len(self.buffer) |->
                    self.buffer[Len(self.buffer) + 1 - i]]),
     rd   |-> rd,
     self |-> [self EXCEPT !.buffer = <<>>]]

\* as take_buffer, but the buffer is copied, not taken
take_buffer_keep(self, rd) ==
    [res |-> Ok(self.buffer), rd |-> rd, self |-> self]

\* Ok(mem::replace(&mut self.buffer, Vec::new()))
take_buffer(self, rd) ==
    [res  |-> Ok(self.buffer),
     rd   |-> rd,
     self |-> [self EXCEPT !.buffer = <<>>]]

\* as control_frame, but the message in progress is dropped
control_frame_reset(self, rd, next) ==
    [res |-> Ok(<<next>>), rd |-> rd, self |-> [self EXCEPT !.buffer = <<>>]]

\* 8...15 => return Ok(vec![next])
control_frame(self, rd, next) ==
    [res |-> Ok(<<next>>), rd |-> rd, self |-> self]

\* as unexpected_data, but the frame is returned like a control frame
unexpected_data_returned(self, rd, next) ==
    [res |-> Ok(<<next>>), rd |-> rd, self |-> self]

\* as unexpected_data, but the message in progress is dropped
unexpected_data_repair(self, rd, next) ==
    [res  |-> Err(ProtocolError("Unexpected data frame opcode")),
     rd   |-> rd,
     self |-> [self EXCEPT !.buffer = <<>>]]

\* as unexpected_data, but the frame is stored before the error is returned
unexpected_data_pushed(self, rd, next) ==
    [res  |-> Err(ProtocolError("Unexpected data frame opcode")),
     rd   |-> rd,
     self |-> [self EXCEPT !.buffer = Append(@, next)]]

\* _ => return Err(ProtocolError("Unexpected data frame opcode"))
unexpected_data(self, rd, next) ==
    [res  |-> Err(ProtocolError("Unexpected data frame opcode")),
     rd   |-> rd,
     self |-> self]

RECURSIVE while_not_finished(_, _)

\* as unexpected_continuation, but the frame is taken for a message start
unexpected_continuation_accepted(self, rd, first) ==
    IF first.finished
    THEN take_buffer(push(self, first), rd)
    ELSE while_not_finished(push(self, first), rd)

\* if first.opcode == Opcode::Continuation { return Err(...) }
unexpected_continuation(self, rd, first) ==
    [res  |-> Err(ProtocolError("Unexpected continuation data frame opcode")),
     rd   |-> rd,
     self |-> self]

\* while !finished { ... }, entered with finished = false
while_not_finished(self, rd) ==
    LET n == recv_dataframe(self, rd, self.uuid)
    IN  IF ~n.res.ok
        THEN propagate(n)
        ELSE LET next == n.res.val
             IN  IF next.opcode = Continuation
                 THEN IF next.finished
                      THEN take_buffer(push(n.self, next), n.rd)
                      ELSE while_not_finished(push(n.self, next), n.rd)
                 ELSE IF IsControl(next.opcode)
                 THEN control_frame(n.self, n.rd, next)
                 ELSE unexpected_data(n.self, n.rd, next)

\* as first_frame, but the first frame is returned whatever its finished bit
first_frame_eager(self, rd) ==
    LET n == recv_dataframe(self, rd, self.uuid)
    IN  IF ~n.res.ok
        THEN propagate(n)
        ELSE LET first == n.res.val
             IN  IF first.opcode = Continuation
                 THEN unexpected_continuation(n.self, n.rd, first)
                 ELSE take_buffer(push(n.self, first), n.rd)

\* if self.buffer.is_empty() { ... }: the first frame of a message
first_frame(self, rd) ==
    LET n == recv_dataframe(self, rd, self.uuid)
    IN  IF ~n.res.ok
        THEN propagate(n)
        ELSE LET first == n.res.val
             IN  IF first.opcode = Continuation
                 THEN unexpected_continuation(n.self, n.rd, first)
                 ELSE IF first.finished
                 THEN take_buffer(push(n.self, first), n.rd)
                 ELSE while_not_finished(push(n.self, first), n.rd)

\* as resume, but with else { true }
resume_finished(self, rd) == take_buffer(self, rd)

\* else { false }: a message is in progress, the loop goes on
resume(self, rd) == while_not_finished(self, rd)

recv_message_dataframes(self, rd) ==
    IF self.buffer = <<>>
    THEN first_frame(self, rd)
    ELSE resume(self, rd)

(* ------------------------------- state -------------------------------- *)
VARIABLES
    wire,          \* bytes written by the peer, still in transit
    avail,         \* bytes that a read returns now
    closed,        \* the peer has closed its sending side
    peerMask,      \* whether the peer masks the frames it writes
    buffer,        \* Receiver.buffer (PendingContinuation)
    mask,          \* Receiver.mask
    packet_state,  \* Receiver.packet_state
    reader_state,  \* Receiver.reader_state
    uuid,          \* Receiver.uuid
    nread,         \* frames the decoder has yielded so far
    nsent,         \* frames the peer has written so far
    sentq,         \* the frames written and not yet decoded, as written
    segment,       \* the frames, as written, that the calls so far have
                   \* decoded of the message in progress, with the frames
                   \* that came in between; after the call that ends the
                   \* message, the whole of it
    handed,        \* the highest arrival number handed to the caller so
                   \* far: msg, in a result that left nothing pending,
                   \* and alone, in a result that left a message pending
    last           \* the last call: the operation, what it returned, and
                   \* what it started from: the buffer, the frames (as
                   \* written) it went on to consume, what a read past
                   \* the readable bytes gave, whether the bytes were
                   \* bound to run out, whether
                   \* a frame was partly decoded, the value of handed

vars == <<wire, avail, closed, peerMask, buffer, mask, packet_state,
          reader_state, uuid, nread, nsent, sentq, segment, handed, last>>

Self ==
    [buffer       |-> buffer,
     mask         |-> mask,
     packet_state |-> packet_state,
     reader_state |-> reader_state,
     uuid         |-> uuid]

\* what a read returns when the readable bytes run out
EndKinds ==
    IF closed /\ wire = <<>>
    THEN {"NoDataAvailable"}
    ELSE {"WouldBlock", "IoError"}

PeerKey == IF peerMask THEN [i \in 1..MaskKeyLen |-> 37] ELSE <<>>

Payload(n) == [i \in 1..n |-> 65]

\* the frames of a message stream
Frames ==
    { [finished |-> k[1], opcode |-> k[2], data |-> Payload(MsgPayload)] :
        k \in FrameKinds }

\* the frames of the decoder runs: an unfinished continuation and a ping,
\* each without payload and with the longest payload
RawFrames ==
    { [finished |-> k[1], opcode |-> k[2], data |-> Payload(n)] :
        k \in {<<FALSE, 0>>, <<TRUE, 9>>}, n \in {0, MaxPayload} }

\* the length of the wire form of a frame, and of a sequence of frames
FrameLen(f, key) == 2 + Len(key) + Len(f.data)

RECURSIVE FramesLen(_, _)
FramesLen(q, key) ==
    IF q = <<>> THEN 0 ELSE FrameLen(Head(q), key) + FramesLen(Tail(q), key)

\* the number of whole frames a reader gets out of b bytes of the frames q
RECURSIVE Whole(_, _, _)
Whole(q, key, b) ==
    IF q = <<>> \/ FrameLen(Head(q), key) > b
    THEN 0
    ELSE 1 + Whole(Tail(q), key, b - FrameLen(Head(q), key))

\* the bytes of the first frame in flight that the decoder has taken
Taken == FramesLen(sentq, PeerKey) - Len(wire) - Len(avail)

\* the frames in flight that are wholly readable now
Readable == Take(sentq, Whole(sentq, PeerKey, Taken + Len(avail)))

\* the message that seg belongs to has ended: with a finished first frame
\* or a continuation with nothing to continue, or with its final
\* continuation
Closed(seg) ==
    \/ seg = <<>>
    \/ /\ Len(seg) = 1
       /\ (seg[1].finished \/ seg[1].opcode = Continuation)
    \/ /\ Len(seg) > 1
       /\ seg[Len(seg)].finished
       /\ seg[Len(seg)].opcode = Continuation

RECURSIVE Extend(_, _)
Extend(seg, fs) ==
    IF fs = <<>>
    THEN seg
    ELSE Extend(IF Closed(seg) THEN <<Head(fs)>> ELSE Append(seg, Head(fs)),
                Tail(fs))

\* q holds only unfinished fragments: a message start when fresh, and
\* continuations
Unfinished(q, fresh) ==
    \A i \in 1..Len(q) :
        /\ ~q[i].finished
        /\ IF fresh /\ i = 1
           THEN q[i].opcode # Continuation
           ELSE q[i].opcode = Continuation

\* the readable bytes run out before a call that starts now can return a
\* frame or reject one
Starved == peerMask = mask /\ Unfinished(Readable, buffer = <<>>)

\* the readable bytes run out before a whole frame
NoFrame == peerMask = mask /\ Readable = <<>>

\* the decoder holds a partly decoded frame
MidFrame == reader_state # ReaderStateNew \/ packet_state # PacketStateDefault

NoCall ==
    [op |-> "none", res |-> Ok(<<>>), pending |-> <<>>, seen |-> <<>>,
     end |-> "", starved |-> FALSE, midframe |-> FALSE,
     hi |-> [msg |-> 0, alone |-> 0]]

InitReceiver ==
    /\ uuid = 1
    /\ buffer = ReceiverNew(mask, uuid).buffer
    /\ packet_state = ReceiverNew(mask, uuid).packet_state
    /\ reader_state = ReceiverNew(mask, uuid).reader_state
    /\ wire = <<>>
    /\ avail = <<>>
    /\ closed = FALSE
    /\ nread = 0
    /\ nsent = 0
    /\ sentq = <<>>
    /\ segment = <<>>
    /\ handed = [msg |-> 0, alone |-> 0]
    /\ last = NoCall

\* a message stream: the peer does not mask, as the receiver expects
Init ==
    /\ peerMask = FALSE
    /\ mask = peerMask
    /\ InitReceiver

\* a decoder run: every combination of masking and expectation
DecInit ==
    /\ peerMask \in BOOLEAN
    /\ mask \in BOOLEAN
    /\ InitReceiver

(* --------------------------- the environment -------------------------- *)
\* the peer writes one frame, the max-th at most
Send(f, max) ==
    /\ ~closed
    /\ nsent < max
    /\ Len(sentq) < MaxInFlight
    /\ wire' = wire \o Encode(f, PeerKey)
    /\ nsent' = nsent + 1
    /\ sentq' = Append(sentq, [finished |-> f.finished, opcode |-> f.opcode,
                               data |-> f.data, seq |-> nsent + 1])
    /\ UNCHANGED <<avail, closed, peerMask, buffer, mask, packet_state,
                   reader_state, uuid, nread, segment, handed, last>>

\* the transport makes the next n bytes readable
Deliver(n) ==
    /\ n \in 1..Len(wire)
    /\ avail' = avail \o Take(wire, n)
    /\ wire' = Drop(wire, n)
    /\ UNCHANGED <<closed, peerMask, buffer, mask, packet_state,
                   reader_state, uuid, nread, nsent, sentq, segment, handed,
                   last>>

\* the peer closes its sending side; the reader sees it once everything
\* in transit has arrived
PeerClose ==
    /\ ~closed
    /\ wire = <<>>
    /\ closed' = TRUE
    /\ UNCHANGED <<wire, avail, peerMask, buffer, mask, packet_state,
                   reader_state, uuid, nread, nsent, sentq, segment, handed,
                   last>>

(* ------------------------------ the calls ----------------------------- *)
Max(a, b) == IF a < b THEN b ELSE a

RECURSIVE MaxSeq(_)
MaxSeq(frames) ==
    IF frames = <<>> THEN 0 ELSE Max(Head(frames).seq, MaxSeq(Tail(frames)))

\* the bookkeeping common to both calls: r is what the call computed
Returned(op, end, r) ==
    LET seen    == Take(sentq, r.rd.count - nread)
        starved == IF op = "recv_dataframe" THEN NoFrame ELSE Starved
    IN  /\ buffer' = r.self.buffer
        /\ packet_state' = r.self.packet_state
        /\ reader_state' = r.self.reader_state
        /\ mask' = r.self.mask
        /\ uuid' = r.self.uuid
        /\ avail' = r.rd.bytes
        /\ nread' = r.rd.count
        /\ sentq' = Drop(sentq, r.rd.count - nread)
        /\ segment' = Extend(IF Closed(segment) THEN <<>> ELSE segment, seen)
        /\ handed' = IF r.res.ok /\ op = "recv_message_dataframes"
                     THEN IF r.self.buffer = <<>>
                          THEN [handed EXCEPT
                                  !.msg = Max(@, MaxSeq(r.res.val))]
                          ELSE [handed EXCEPT
                                  !.alone = Max(@, MaxSeq(r.res.val))]
                     ELSE handed
        /\ last' = [op |-> op, res |-> r.res, pending |-> buffer,
                    seen |-> seen, end |-> IF starved THEN end ELSE "",
                    starved |-> starved,
                    midframe |-> MidFrame, hi |-> handed]
        /\ UNCHANGED <<wire, closed, peerMask, nsent>>

\* Reader::recv_message -> Receiver::recv_message_dataframes
CallRecvMessageDataframes ==
    \E end \in EndKinds :
        Returned("recv_message_dataframes", end,
                 recv_message_dataframes(
                     Self, [bytes |-> avail, end |-> end, count |-> nread]))

\* Reader::recv_dataframe -> Receiver::recv_dataframe
CallRecvDataframe ==
    \E end \in EndKinds :
        Returned("recv_dataframe", end,
                 recv_dataframe(
                     Self, [bytes |-> avail, end |-> end, count |-> nread],
                     uuid))

Next ==
    \/ \E f \in Frames : Send(f, MaxFrames)
    \/ \E n \in 1..Len(wire) : Deliver(n)
    \/ PeerClose
    \/ CallRecvMessageDataframes

Spec == Init /\ [][Next]_vars

DecNext ==
    \/ \E f \in RawFrames : Send(f, MaxRawFrames)
    \/ \E n \in 1..Len(wire) : Deliver(n)
    \/ PeerClose
    \/ CallRecvDataframe

DecSpec == DecInit /\ [][DecNext]_vars

\* a caller that mixes message calls and frame calls on one Reader
MixInit ==
    /\ peerMask \in BOOLEAN
    /\ mask = peerMask
    /\ InitReceiver

\* the frames of such a run: a text frame that starts a message, and both
\* continuations
MixFrames == { f \in Frames : f.opcode \in {Continuation, 1} }

MixNext ==
    \/ \E f \in MixFrames : Send(f, MaxRawFrames)
    \/ \E n \in 1..Len(wire) : Deliver(n)
    \/ PeerClose
    \/ CallRecvMessageDataframes
    \/ CallRecvDataframe

MixSpec == MixInit /\ [][MixNext]_vars

\* a blocking source: a read that runs out of readable bytes does not
\* return while the connection is open, and returns end-of-stream once the
\* peer has closed and everything in transit has arrived
BlockingEnd ==
    IF closed /\ wire = <<>> THEN {"NoDataAvailable"} ELSE {"Blocked"}

\* a call on a blocking source, as far as the readable bytes take it: it
\* returns, or it is left waiting in a read (Blocked), and then the next
\* step is the same call going on: the buffer and the decoder state are all
\* that the loop carries from one frame to the next
CallBlocking ==
    \E end \in BlockingEnd :
        Returned("recv_message_dataframes", end,
                 recv_message_dataframes(
                     Self, [bytes |-> avail, end |-> end, count |-> nread]))

BlockNext ==
    \/ \E f \in Frames : Send(f, MaxRawFrames)
    \/ \E n \in 1..Len(wire) : Deliver(n)
    \/ PeerClose
    \/ CallBlocking

BlockSpec == Init /\ [][BlockNext]_vars

(* ----------------------- vocabulary of the claims --------------------- *)
MsgCall == last.op = "recv_message_dataframes"
RawCall == last.op = "recv_dataframe"
IsProtocolError(res) == ~res.ok /\ res.err.kind = "ProtocolError"
IsCont(f) == f.opcode = Continuation
IsStart(f) == f.opcode # Continuation /\ ~IsControl(f.opcode)
Front(s) == SubSeq(s, 1, Len(s) - 1)
Unseq(fs) ==
    [i \in 1..Len(fs) |-> [finished |-> fs[i].finished,
                           opcode |-> fs[i].opcode, data |-> fs[i].data]]
Increasing(fs) == \A i \in 1..(Len(fs) - 1) : fs[i].seq < fs[i + 1].seq

\* the frames of seg that make up its message: the first, and the
\* continuations after it
Fragments(seg) ==
    IF seg = <<>> THEN <<>> ELSE <<Head(seg)>> \o SelectSeq(Tail(seg), IsCont)

\* m is a whole fragmented message
Fragmented(m) ==
    /\ Len(m) >= 2
    /\ m[1].opcode # Continuation
    /\ ~m[1].finished
    /\ \A i \in 2..Len(m) :
         m[i].opcode = Continuation /\ (m[i].finished <=> i = Len(m))

\* after its first frame seg holds only continuations and control frames
OnlyInterrupted(seg) ==
    \A i \in 2..Len(seg) : IsCont(seg[i]) \/ IsControl(seg[i].opcode)

\* seg is the start of a fragmented message, not ended, with control frames
\* in between
InProgress(seg) ==
    /\ seg # <<>>
    /\ seg[1].opcode # Continuation
    /\ ~seg[1].finished
    /\ \A i \in 2..Len(seg) :
         (IsCont(seg[i]) /\ ~seg[i].finished) \/ IsControl(seg[i].opcode)

\* seg holds a frame that starts a message while one is in progress
Rejected(seg) == \E i \in 2..Len(seg) : IsStart(seg[i])

\* what a new Receiver returns for the message of seg alone, sent in one
\* piece with nothing in between
Clean(seg) ==
    recv_message_dataframes(
        ReceiverNew(mask, uuid),
        [bytes |-> EncodeAll(Fragments(seg), PeerKey),
         end |-> "WouldBlock", count |-> 0]).res

(* ------------------------------- claims ------------------------------- *)
\* C1: a call with PendingContinuation empty that decodes a finished frame
\* whose opcode is not Continuation returns Ok with exactly that frame and
\* leaves PendingContinuation empty.
C1_SingleFrame ==
    (/\ MsgCall
     /\ last.pending = <<>>
     /\ last.seen # <<>>
     /\ last.seen[1].finished
     /\ last.seen[1].opcode # Continuation)
    => /\ last.res = Ok(<<last.seen[1]>>)
       /\ Len(last.seen) = 1
       /\ buffer = <<>>

C1_Witness ==
    /\ MsgCall
    /\ last.pending = <<>>
    /\ last.seen # <<>>
    /\ last.seen[1].finished
    /\ last.seen[1].opcode # Continuation
    /\ last.res.ok
    /\ last.midframe

\* C2: when the frames decoded for one message, whatever the number of
\* calls and whatever control frames came in between, are a whole
\* fragmented message of N >= 2 frames, the call that decodes the last of
\* them returns exactly these N frames in arrival order, none of them
\* handed over in an earlier message, and leaves PendingContinuation empty.
C2_Fragmented ==
    (/\ MsgCall
     /\ last.seen # <<>>
     /\ OnlyInterrupted(segment)
     /\ Fragmented(Fragments(segment)))
    => /\ last.res = Ok(Fragments(segment))
       /\ Increasing(last.res.val)
       /\ last.res.val[1].seq > last.hi.msg
       /\ buffer = <<>>

C2_Witness ==
    /\ MsgCall
    /\ last.seen # <<>>
    /\ OnlyInterrupted(segment)
    /\ Fragmented(Fragments(segment))
    /\ Len(Fragments(segment)) = 3
    /\ last.pending # <<>>
    /\ last.midframe
    /\ last.res.ok

\* C3: a control frame decoded after the first K >= 1 fragments of a
\* message in progress is returned alone by the call that decodes it, and
\* PendingContinuation then holds exactly these K fragments; and the call
\* that ends a message interrupted by control frames returns what a
\* Receiver returns for the same message with no control frame in it.
C3_ControlInterleaved ==
    (MsgCall /\ last.seen # <<>>)
    => /\ (/\ Len(segment) >= 2
           /\ InProgress(segment)
           /\ IsControl(segment[Len(segment)].opcode))
          => /\ last.res = Ok(<<segment[Len(segment)]>>)
             /\ buffer = Fragments(segment)
       /\ (/\ OnlyInterrupted(segment)
           /\ Fragmented(Fragments(segment))
           /\ Len(Fragments(segment)) < Len(segment))
          => /\ last.res.ok
             /\ Clean(segment).ok
             /\ Unseq(last.res.val) = Unseq(Clean(segment).val)
             /\ buffer = <<>>

C3_Witness ==
    /\ MsgCall
    /\ last.seen # <<>>
    /\ OnlyInterrupted(segment)
    /\ Fragmented(Fragments(segment))
    /\ Len(Fragments(segment)) < Len(segment)
    /\ last.res.ok
    /\ handed.alone > 0

\* C4: a call with PendingContinuation empty whose first decoded frame is
\* a Continuation, finished or not, returns a protocol error, and
\* PendingContinuation is still empty.
C4_LoneContinuation ==
    (/\ MsgCall
     /\ last.pending = <<>>
     /\ last.seen # <<>>
     /\ last.seen[1].opcode = Continuation)
    => /\ last.res =
            Err(ProtocolError("Unexpected continuation data frame opcode"))
       /\ Len(last.seen) = 1
       /\ buffer = <<>>

C4_Witness ==
    /\ MsgCall
    /\ last.pending = <<>>
    /\ last.seen # <<>>
    /\ last.seen[1].opcode = Continuation
    /\ ~last.seen[1].finished
    /\ IsProtocolError(last.res)

\* C5: a frame that starts a message (a data opcode other than
\* Continuation), decoded while PendingContinuation is not empty, ends the
\* call with a protocol error, in the call that started the message as in
\* a later one.
C5_SecondStart ==
    MsgCall
    => \A i \in 1..Len(last.seen) :
         (/\ IsStart(last.seen[i])
          /\ \/ last.pending # <<>>
             \/ /\ i >= 2
                /\ last.seen[1].opcode # Continuation
                /\ ~last.seen[1].finished)
         => /\ i = Len(last.seen)
            /\ last.res = Err(ProtocolError("Unexpected data frame opcode"))

C5_Witness ==
    /\ MsgCall
    /\ last.pending # <<>>
    /\ last.seen # <<>>
    /\ IsStart(last.seen[Len(last.seen)])
    /\ IsProtocolError(last.res)

\* the bytes the decoder holds of a frame it has not yet yielded
Held ==
    Len(reader_state)
    + (IF packet_state.header = <<>>
       THEN 0
       ELSE 2 + Len(packet_state.header[1].key) + Len(packet_state.packet))

\* the first frame that decoding the frames q in one piece yields
Contig(q) ==
    read_dataframe([bytes |-> EncodeAll(q, PeerKey), end |-> "WouldBlock",
                    count |-> nread - 1],
                   mask, uuid, PacketStateDefault, ReaderStateNew).res

\* C6: however the bytes arrive, a decode call yields a frame exactly when
\* a whole frame is readable, and then the frame that decoding the bytes
\* in flight in one piece yields; otherwise it returns the failure of the
\* read; and the bytes taken from the source and not yet part of a yielded
\* frame are the ones the decoder holds: none is dropped or taken twice.
C6_PartialReads ==
    (peerMask = mask)
    => /\ Held = Taken
       /\ RawCall
          => IF last.starved
             THEN /\ last.res = Err(ReadFailure(last.end))
                  /\ last.seen = <<>>
             ELSE /\ Len(last.seen) = 1
                  /\ last.res = Contig(last.seen \o sentq)
                  /\ last.res = Ok(last.seen[1])

C6_Witness ==
    /\ peerMask
    /\ mask
    /\ RawCall
    /\ last.midframe
    /\ last.res.ok
    /\ Len(last.res.val.data) = MaxPayload
    /\ nread = MaxRawFrames

\* C7: a call for which the readable bytes run out before a frame that
\* ends it returns the error of the read that failed, and
\* PendingContinuation holds the frames it held before the call and those
\* the call decoded, in order.
C7_ReadFailure ==
    (MsgCall /\ last.starved)
    => /\ last.res = Err(ReadFailure(last.end))
       /\ buffer = last.pending \o last.seen

C7_Witness ==
    /\ MsgCall
    /\ last.starved
    /\ last.seen # <<>>
    /\ last.pending # <<>>
    /\ last.res = Err(ReadFailure("IoError"))

\* C8, as the claim states it: the frames handed to the caller, call after
\* call, are in arrival order.
C8_ArrivalOrder ==
    (MsgCall /\ last.res.ok)
    => /\ Increasing(last.res.val)
       /\ last.res.val[1].seq > Max(last.hi.msg, last.hi.alone)

\* C8, amended: inside one result the frames are in arrival order; the
\* results that leave nothing pending (the messages) are in arrival order
\* among themselves, and so are the control frames returned while a
\* message is pending.
C8_OrderPerKind ==
    (MsgCall /\ last.res.ok)
    => /\ Increasing(last.res.val)
       /\ IF buffer = <<>>
          THEN last.res.val[1].seq > last.hi.msg
          ELSE last.res.val[1].seq > last.hi.alone

C8_Witness ==
    /\ MsgCall
    /\ last.res.ok
    /\ buffer = <<>>
    /\ Len(last.res.val) >= 2
    /\ last.res.val[1].seq < last.hi.alone

\* C10: a call that returns a protocol error leaves in PendingContinuation
\* the frames it held before the call and those decoded before the
\* offending frame, and the recovery buffer empty as the decoder left it;
\* and a message in which such a frame was rejected is still returned
\* whole once its last fragment is decoded.
C10_ErrorKeepsState ==
    MsgCall
    => /\ IsProtocolError(last.res)
          => /\ buffer = last.pending \o Front(last.seen)
             /\ packet_state = PacketStateDefault
       /\ (/\ last.seen # <<>>
           /\ Rejected(segment)
           /\ Fragmented(Fragments(segment)))
          => /\ last.res = Ok(Fragments(segment))
             /\ buffer = <<>>

C10_Witness ==
    /\ MsgCall
    /\ last.seen # <<>>
    /\ Rejected(segment)
    /\ Fragmented(Fragments(segment))
    /\ last.res.ok

\* C11: between calls, every frame of PendingContinuation is unfinished,
\* the first is not a Continuation, and every later one is a Continuation
\* or a control frame.
C11_PendingShape ==
    \A i \in 1..Len(buffer) :
        /\ ~buffer[i].finished
        /\ IF i = 1
           THEN buffer[i].opcode # Continuation
           ELSE IsCont(buffer[i]) \/ IsControl(buffer[i].opcode)

C11_Witness ==
    /\ MsgCall
    /\ Len(buffer) >= 2
    /\ last.pending # <<>>
    /\ ~last.res.ok

\* the place of frame f in seg, whose frames are numbered as they arrived
PlaceIn(seg, f) == f.seq - seg[1].seq + 1

\* C12: the frames of every Ok result are frames of the message being
\* assembled, as they were written, in the order in which they arrived,
\* for a message (accumulated over one or several calls) as for a control
\* frame returned alone.
C12_ResultOrder ==
    (MsgCall /\ last.res.ok)
    => /\ \A i \in 1..Len(last.res.val) :
            /\ PlaceIn(segment, last.res.val[i]) \in 1..Len(segment)
            /\ segment[PlaceIn(segment, last.res.val[i])] = last.res.val[i]
       /\ \A i, j \in 1..Len(last.res.val) :
            i < j => last.res.val[i].seq < last.res.val[j].seq

C12_Witness ==
    /\ MsgCall
    /\ last.res.ok
    /\ last.pending # <<>>
    /\ Len(last.res.val) = 2
    /\ last.res.val[2].seq > last.res.val[1].seq + 1

\* C13: a recv_dataframe call leaves PendingContinuation and the masking
\* flag as they were, and when it decodes a frame it returns that frame,
\* whatever its opcode and whether or not a message is in progress.
C13_PassThrough ==
    [][CallRecvDataframe
       => /\ buffer' = buffer
          /\ mask' = mask
          /\ nread' > nread => last'.res = Ok(Head(sentq))]_vars

C13_Witness ==
    /\ RawCall
    /\ last.pending # <<>>
    /\ buffer = last.pending
    /\ last.res.ok
    /\ IsStart(last.res.val)

\* C14, as the claim states it: after every call the ParseCursor is absent
\* and the FrameRecoveryBuffer is empty.
C14_OnlyBufferSurvives ==
    MsgCall
    => /\ reader_state = ReaderStateNew
       /\ packet_state = PacketStateDefault

\* C14, amended: after a call that returned Ok or a protocol error the
\* ParseCursor is absent and the FrameRecoveryBuffer is empty; after any
\* call the two hold exactly the bytes taken from the source of a frame
\* not yet yielded, which after a read failure may be some.
C14_DecoderStateSurvives ==
    MsgCall
    => /\ (last.res.ok \/ IsProtocolError(last.res))
          => /\ reader_state = ReaderStateNew
             /\ packet_state = PacketStateDefault
       /\ Held = Taken

C14_Witness ==
    /\ MsgCall
    /\ ~last.res.ok
    /\ last.seen # <<>>
    /\ buffer # <<>>
    /\ packet_state.header # <<>>
    /\ Held = Taken

\* C15: between decode calls, PacketState holds a header exactly when the
\* header of the frame in flight has been taken from the source and the
\* frame is not yet yielded; with a header it holds fewer payload bytes
\* than the header declares, without one it holds none; and after a call
\* that yields a frame it is reset.
C15_PacketState ==
    /\ packet_state.header # <<>>
       => Len(packet_state.packet) < packet_state.header[1].len
    /\ packet_state.header = <<>> => packet_state.packet = <<>>
    /\ (peerMask = mask)
       => (packet_state.header # <<>>
           <=> (sentq # <<>> /\ Taken >= 2 + Len(PeerKey)))
    /\ (RawCall /\ last.res.ok) => packet_state = PacketStateDefault

C15_Witness ==
    /\ RawCall
    /\ peerMask = mask
    /\ ~last.res.ok
    /\ packet_state.header # <<>>
    /\ packet_state.packet # <<>>
    /\ nread > 0

\* the Receiver in its present state, had it been built with another uuid
OtherSelf == [Self EXCEPT !.uuid = uuid + 1]

\* two calls ended alike: same result, same bytes left, and the same
\* Receiver but for its uuid
Alike(a, b) ==
    /\ a.res = b.res
    /\ a.rd = b.rd
    /\ a.self.buffer = b.self.buffer
    /\ a.self.mask = b.self.mask
    /\ a.self.packet_state = b.self.packet_state
    /\ a.self.reader_state = b.self.reader_state

SingleControl(v) == Len(v) = 1 /\ IsControl(v[1].opcode)

\* v is a complete message: only its last frame is finished, its first
\* frame is not a Continuation and all the others are
Complete(v) ==
    /\ v # <<>>
    /\ v[1].opcode # Continuation
    /\ \A i \in 1..Len(v) :
         /\ v[i].finished <=> i = Len(v)
         /\ i >= 2 => v[i].opcode = Continuation

\* C17: every Ok result of recv_message_dataframes is not empty and is
\* either one control frame or a complete message.
C17_OkShape ==
    (MsgCall /\ last.res.ok)
    => /\ last.res.val # <<>>
       /\ SingleControl(last.res.val) \/ Complete(last.res.val)

C17_Witness ==
    /\ MsgCall
    /\ last.res.ok
    /\ Len(last.res.val) = 3
    /\ Complete(last.res.val)
    /\ ~SingleControl(last.res.val)

\* how many times x occurs in the sequence s
Count(s, x) == Cardinality({ i \in 1..Len(s) : s[i] = x })

\* the frames the last call returned, and the frame it rejected
ReturnedFrames == IF last.res.ok THEN last.res.val ELSE <<>>
RejectedFrames ==
    IF IsProtocolError(last.res) /\ last.seen # <<>>
    THEN <<last.seen[Len(last.seen)]>>
    ELSE <<>>

\* C18: the frames pending before a call and the frames the call decoded
\* are, each as many times as it occurs, the frames the call returned,
\* the frames pending after it and the frame it rejected; so over the
\* calls every decoded frame is returned once, pending or rejected.
C18_Conservation ==
    MsgCall
    => LET before == last.pending \o last.seen
           after  == ReturnedFrames \o buffer \o RejectedFrames
       IN  /\ \A i \in 1..Len(before) :
                Count(after, before[i]) = Count(before, before[i])
           /\ \A i \in 1..Len(after) :
                Count(before, after[i]) = Count(after, after[i])
           /\ \A i \in 1..Len(after) : Count(after, after[i]) = 1

C18_Witness ==
    /\ MsgCall
    /\ last.pending # <<>>
    /\ Len(last.seen) >= 2
    /\ RejectedFrames # <<>>
    /\ buffer # <<>>
    /\ Len(buffer) > Len(last.pending)

\* C19: no control frame is ever in PendingContinuation, and every control
\* frame a call decodes is in the Ok result of that call.
C19_ControlNeverStored ==
    /\ \A i \in 1..Len(buffer) : ~IsControl(buffer[i].opcode)
    /\ MsgCall
       => \A i \in 1..Len(last.seen) :
            IsControl(last.seen[i].opcode)
            => /\ last.res.ok
               /\ Count(last.res.val, last.seen[i]) = 1

\* the call is waiting in a read
Blocked == MsgCall /\ last.res = Err(ReadFailure("Blocked"))

\* a frame after which the call is to return: a finished frame, a control
\* frame, or one that is illegal where it stands
Stops(f, fresh) ==
    \/ f.finished
    \/ IsControl(f.opcode)
    \/ IF fresh THEN IsCont(f) ELSE IsStart(f)

\* a call is left waiting only when the readable bytes ran out, on a
\* source that has not ended, before a frame that ends the call as the
\* code has it; so it waits for bytes only, and returns once the source
\* supplies a frame that ends it or reports its end
C20_WaitsForBytes == Blocked => last.starved /\ last.end = "Blocked"

\* C20: every call decodes at least one frame or returns the decode
\* failure; it decodes nothing after a finished frame, a control frame or
\* an illegal frame, and it has returned when the last frame it decoded
\* is one of these; and it is left waiting only for bytes.
C20_Progress ==
    /\ MsgCall
       => /\ last.seen = <<>> => ~last.res.ok
          /\ \A i \in 1..(Len(last.seen) - 1) :
               ~Stops(last.seen[i], last.pending = <<>> /\ i = 1)
          /\ (last.seen # <<>>
              /\ Stops(last.seen[Len(last.seen)],
                       last.pending = <<>> /\ Len(last.seen) = 1))
             <=> (last.res.ok \/ IsProtocolError(last.res))
    /\ C20_WaitsForBytes

====
